---- MODULE Spec2Model ----
(***************************************************************************)
(* JARVIS2026: the media ingestion and reward pipeline of src/main.rs.     *)
(*                                                                         *)
(* The state is the PostgreSQL database created by init_db (users,         *)
(* properties, media_uploads, token_transactions), the uploads/ directory, *)
(* and, for every in-flight upload_property request, its position and its  *)
(* local variables.  Every .await of upload_property and award_tokens is a *)
(* step, so concurrent requests interleave between statements.  The        *)
(* database runs each statement atomically at READ COMMITTED: a statement  *)
(* outside a transaction commits on its own, the statements of             *)
(* award_tokens become visible together at COMMIT.                         *)
(***************************************************************************)
EXTENDS Integers, Sequences, FiniteSets, TLC

\* src/main.rs:88
ORIGINAL_UPLOAD_TOKENS == 100

\* ------------------------------------------------------------------ bounds
\* Largest number of "files" fields of a run, over all its requests.
MaxFiles == 2
\* Largest number of statements of a run that fail for a reason outside the
\* data (SpecFaulty).
MaxFailures == 1

\* The concurrent upload_property requests.
Requests == {1, 2}

\* User identifiers a client can send (the UUIDs create_user hands out, which
\* are also valid UUIDs before the user exists).
UserIds == {"alice", "bob"}

\* Option::None, SQL NULL.
None == "none"

\* Byte contents of an upload; a byte is 0 or 1.
FileData == {<<0>>, <<0, 1>>}

\* The (filename, file_data) pairs a "files" field can carry: clients tend to
\* reuse a filename, with the same bytes or with other bytes.
FileFields == {<<"photo.jpg", d>> : d \in FileData}

RECURSIVE SeqsUpTo(_, _)
SeqsUpTo(S, n) ==
    IF n = 0 THEN {<<>>}
    ELSE LET shorter == SeqsUpTo(S, n - 1)
         IN  shorter \cup {Append(s, x) : s \in {t \in shorter : Len(t) = n - 1}, x \in S}

\* ------------------------------------------------------------------ state
VARIABLES
    users,               \* users table: id -> token_balance (committed)
    properties,          \* properties table: set of rows
    media_uploads,       \* media_uploads table: set of rows
    token_transactions,  \* token_transactions table: set of rows
    disk,                \* uploads/ directory: file_path -> bytes
    pc,                  \* per request: position in upload_property
    req,                 \* per request: the parsed multipart form
    loc,                 \* per request: locals of the file loop
    tx,                  \* per request: the open transaction of award_tokens
    resp,                \* per request: the HTTP response
    trail,               \* per request: what happened to each processed file
    failures             \* statements that failed for an outside reason

vars == <<users, properties, media_uploads, token_transactions, disk,
          pc, req, loc, tx, resp, trail, failures>>

db == <<users, properties, media_uploads, token_transactions>>

\* --------------------------------------------------------- pure functions

\* calculate_file_hash: SHA-256 of the bytes, hex encoded.  The digest is
\* modelled as collision free: the bytes read as a binary numeral behind a
\* leading 1, so that equal digests mean equal bytes, whatever the filename.
RECURSIVE calculate_file_hash(_)
calculate_file_hash(file_data) ==
    IF file_data = <<>> THEN 1
    ELSE 2 * calculate_file_hash(SubSeq(file_data, 1, Len(file_data) - 1))
         + file_data[Len(file_data)]

\* format!("uploads/{}", filename)
FilePath(filename) == <<"uploads", filename>>

\* Uuid::new_v4() for the property of request r and for the i-th file of
\* request r: fresh, so distinct for distinct (r, i).
PropertyId(r) == <<"property", r>>
MediaId(r, i) == <<"media", r, i>>

RECURSIVE SumAmounts(_)
SumAmounts(rows) ==
    IF rows = {} THEN 0
    ELSE LET t == CHOOSE t \in rows : TRUE
         IN  t.amount + SumAmounts(rows \ {t})

\* ------------------------------------------------------------ SQL queries

\* SELECT COUNT(*) FROM media_uploads WHERE content_hash = $1
CountByHash(content_hash) ==
    Cardinality({m \in media_uploads : m.content_hash = content_hash})

\* check_duplicate with the comparison off by one.
check_duplicate_more_than_one(content_hash) == CountByHash(content_hash) > 1

\* check_duplicate, when its query succeeds: Ok(result > 0)
check_duplicate(content_hash) == CountByHash(content_hash) > 0

\* media_uploads without UNIQUE on content_hash.
MediaInsertAllowedNoUnique(row) ==
    /\ \A m \in media_uploads : m.id # row.id
    /\ \E p \in properties : p.id = row.property_id
    /\ row.user_id \in DOMAIN users

\* media_uploads with content_hash unique among original rows only.
MediaInsertAllowedUniqueOriginals(row) ==
    /\ \A m \in media_uploads : m.id # row.id
    /\ \E p \in properties : p.id = row.property_id
    /\ row.user_id \in DOMAIN users
    /\ \A m \in media_uploads :
          (m.is_original /\ row.is_original) => m.content_hash # row.content_hash

\* Constraints of media_uploads: id PRIMARY KEY, property_id and user_id
\* REFERENCES, content_hash UNIQUE.
MediaInsertAllowed(row) ==
    /\ \A m \in media_uploads : m.id # row.id
    /\ \E p \in properties : p.id = row.property_id
    /\ row.user_id \in DOMAIN users
    /\ \A m \in media_uploads : m.content_hash # row.content_hash

\* token_transactions without REFERENCES media_uploads(id).
TransactionInsertAllowedNoMediaKey(row) == row.user_id \in DOMAIN users

\* Constraints of token_transactions: user_id and media_id REFERENCES.
TransactionInsertAllowed(row) ==
    /\ row.user_id \in DOMAIN users
    /\ \E m \in media_uploads : m.id = row.media_id

\* Constraint of properties: user_id REFERENCES users(id); NULL passes.
PropertyInsertAllowed(row) == row.user_id = None \/ row.user_id \in DOMAIN users

\* ------------------------------------------------------------------- Init

NoTx == [open |-> FALSE, user |-> None, balance |-> 0, rows |-> {}]
NoLoc == [idx |-> 1, content_hash |-> 0, is_original |-> FALSE, tokens |-> 0,
          total_tokens |-> 0, media_ids |-> <<>>]
NoReq == [user_id |-> None, files |-> <<>>]

Init ==
    /\ users = <<>>
    /\ properties = {}
    /\ media_uploads = {}
    /\ token_transactions = {}
    /\ disk = <<>>
    /\ pc = [r \in Requests |-> "idle"]
    /\ req = [r \in Requests |-> NoReq]
    /\ loc = [r \in Requests |-> NoLoc]
    /\ tx = [r \in Requests |-> NoTx]
    /\ resp = [r \in Requests |-> None]
    /\ trail = [r \in Requests |-> <<>>]
    /\ failures = 0

\* ------------------------------------------------------------ create_user

\* POST /api/users: INSERT INTO users ... RETURNING *; token_balance DEFAULT 0.
\* A taken username violates UNIQUE and leaves the table as it was.
create_user(u) ==
    /\ u \notin DOMAIN users
    /\ users' = users @@ (u :> 0)
    /\ UNCHANGED <<properties, media_uploads, token_transactions, disk,
                   pc, req, loc, tx, resp, trail, failures>>

\* -------------------------------------------------------- upload_property

RECURSIVE SumLen(_)
SumLen(rs) ==
    IF rs = {} THEN 0
    ELSE LET r == CHOOSE r \in rs : TRUE
         IN  Len(req[r].files) + SumLen(rs \ {r})

\* "files" fields received so far, over all requests.
FilesReceived == SumLen(Requests)

\* The multipart loop: user_id is Some only when the field is present and
\* parses as a UUID; every "files" field is pushed onto files.
ParseMultipart(r) ==
    /\ pc[r] = "idle"
    /\ \E u \in UserIds \cup {None}, fs \in SeqsUpTo(FileFields, MaxFiles) :
          /\ Len(fs) + FilesReceived <= MaxFiles
          /\ req' = [req EXCEPT ![r] = [user_id |-> u, files |-> fs]]
    /\ pc' = [pc EXCEPT ![r] = "parsed"]
    /\ UNCHANGED <<db, disk, loc, tx, resp, trail, failures>>

\* The user_id check placed after the properties INSERT (user_id NULL).
RejectMissingUserAfterInsert(r) ==
    /\ pc[r] = "parsed"
    /\ req[r].user_id = None
    /\ properties' = properties \cup {[id |-> PropertyId(r), user_id |-> None]}
    /\ pc' = [pc EXCEPT ![r] = "bad_request"]
    /\ resp' = [resp EXCEPT ![r] = [status |-> 400, media_ids |-> <<>>, tokens_earned |-> 0]]
    /\ UNCHANGED <<users, media_uploads, token_transactions, disk, req, loc, tx,
                   trail, failures>>

\* user_id is None: 400 Bad Request, {"error": "user_id required"}.
RejectMissingUser(r) ==
    /\ pc[r] = "parsed"
    /\ req[r].user_id = None
    /\ pc' = [pc EXCEPT ![r] = "bad_request"]
    /\ resp' = [resp EXCEPT ![r] = [status |-> 400, media_ids |-> <<>>, tokens_earned |-> 0]]
    /\ UNCHANGED <<db, disk, req, loc, tx, trail, failures>>

PropertyRow(r) == [id |-> PropertyId(r), user_id |-> req[r].user_id]

\* The properties INSERT storing no row.
InsertPropertyNoRow(r) ==
    /\ pc[r] = "parsed"
    /\ req[r].user_id # None
    /\ PropertyInsertAllowed(PropertyRow(r))
    /\ pc' = [pc EXCEPT ![r] = "loop"]
    /\ UNCHANGED <<db, disk, req, loc, tx, resp, trail, failures>>

\* INSERT INTO properties succeeds; the file loop starts.
InsertProperty(r) ==
    /\ pc[r] = "parsed"
    /\ req[r].user_id # None
    /\ PropertyInsertAllowed(PropertyRow(r))
    /\ properties' = properties \cup {PropertyRow(r)}
    /\ pc' = [pc EXCEPT ![r] = "loop"]
    /\ UNCHANGED <<users, media_uploads, token_transactions, disk, req, loc, tx, resp, trail, failures>>

\* The failed properties INSERT dropped like the later results: the file
\* loop starts without the row.
InsertPropertyRejectedDropped(r) ==
    /\ pc[r] = "parsed"
    /\ req[r].user_id # None
    /\ ~PropertyInsertAllowed(PropertyRow(r))
    /\ pc' = [pc EXCEPT ![r] = "loop"]
    /\ UNCHANGED <<db, disk, req, loc, tx, resp, trail, failures>>

\* INSERT INTO properties fails (no such user): 500, nothing else is done.
InsertPropertyRejected(r) ==
    /\ pc[r] = "parsed"
    /\ req[r].user_id # None
    /\ ~PropertyInsertAllowed(PropertyRow(r))
    /\ pc' = [pc EXCEPT ![r] = "server_error"]
    /\ resp' = [resp EXCEPT ![r] = [status |-> 500, media_ids |-> <<>>, tokens_earned |-> 0]]
    /\ UNCHANGED <<db, disk, req, loc, tx, trail, failures>>

CurFile(r) == req[r].files[loc[r].idx]
CurName(r) == CurFile(r)[1]
CurData(r) == CurFile(r)[2]
CurMediaId(r) == MediaId(r, loc[r].idx)

\* Result<bool, sqlx::Error> of check_duplicate.
Ok(value) == [ok |-> TRUE, value |-> value]
Err == [ok |-> FALSE, value |-> FALSE]

\* .unwrap_or(false)
UnwrapOrFalse(result) == IF result.ok THEN result.value ELSE FALSE

\* Top of the loop body: hash the bytes, ask check_duplicate, derive
\* is_original and tokens.  lookup is what check_duplicate(...).await gave.
StartFile(r, lookup) ==
    /\ pc[r] = "loop"
    /\ loc[r].idx <= Len(req[r].files)
    /\ LET content_hash == calculate_file_hash(CurData(r))
           is_duplicate == UnwrapOrFalse(lookup)
           is_original == ~is_duplicate
       IN  /\ loc' = [loc EXCEPT ![r].content_hash = content_hash,
                                  ![r].is_original = is_original,
                                  ![r].tokens = IF is_original THEN ORIGINAL_UPLOAD_TOKENS ELSE 0]
           /\ trail' = [trail EXCEPT ![r] = Append(@,
                  [content_hash |-> content_hash,
                   stored_before |-> CountByHash(content_hash) > 0,
                   lookup_ok |-> lookup.ok,
                   is_original |-> is_original,
                   written |-> FALSE, inserted |-> FALSE, awarded |-> "no",
                   commit_failed |-> FALSE])]
    /\ pc' = [pc EXCEPT ![r] = "store"]
    /\ UNCHANGED <<db, disk, req, tx, resp>>

\* check_duplicate returns Ok.
CheckDuplicate(r) ==
    /\ StartFile(r, Ok(check_duplicate(calculate_file_hash(CurData(r)))))
    /\ UNCHANGED failures

\* create_dir_all, File::create (truncating) and write_all to
\* uploads/<filename>.
WriteFile(r) ==
    /\ pc[r] = "store"
    /\ disk' = [p \in DOMAIN disk \cup {FilePath(CurName(r))} |->
                  IF p = FilePath(CurName(r)) THEN CurData(r) ELSE disk[p]]
    /\ trail' = [trail EXCEPT ![r][loc[r].idx].written = TRUE]
    /\ pc' = [pc EXCEPT ![r] = "insert"]
    /\ UNCHANGED <<db, req, loc, tx, resp, failures>>

MediaRow(r) ==
    [id |-> CurMediaId(r),
     property_id |-> PropertyId(r),
     user_id |-> req[r].user_id,
     file_path |-> FilePath(CurName(r)),
     content_hash |-> loc[r].content_hash,
     file_size |-> Len(CurData(r)),
     is_original |-> loc[r].is_original,
     tokens_earned |-> loc[r].tokens]

\* End of the loop body: total_tokens += tokens when is_original, then
\* media_ids.push(media_id), whatever the insert and the award returned.
EndFile(r, awarded) ==
    /\ loc' = [loc EXCEPT ![r].idx = @ + 1,
                           ![r].total_tokens = IF loc[r].is_original
                                               THEN @ + loc[r].tokens ELSE @,
                           ![r].media_ids = Append(@, CurMediaId(r))]
    /\ trail' = [trail EXCEPT ![r][loc[r].idx].awarded = awarded,
                               ![r][loc[r].idx].commit_failed =
                                   (awarded = "err" /\ pc[r] = "award_commit")]
    /\ pc' = [pc EXCEPT ![r] = "loop"]

\* After the media_uploads INSERT, whose result .ok() drops: award_tokens
\* when is_original, else the end of the loop body.
AfterInsert(r, inserted) ==
    IF loc[r].is_original
    THEN /\ pc' = [pc EXCEPT ![r] = "award_begin"]
         /\ trail' = [trail EXCEPT ![r][loc[r].idx].inserted = inserted]
         /\ UNCHANGED loc
    ELSE /\ loc' = [loc EXCEPT ![r].idx = @ + 1,
                                ![r].media_ids = Append(@, CurMediaId(r))]
         /\ trail' = [trail EXCEPT ![r][loc[r].idx].inserted = inserted]
         /\ pc' = [pc EXCEPT ![r] = "loop"]

\* INSERT INTO media_uploads succeeds.
InsertMedia(r) ==
    /\ pc[r] = "insert"
    /\ MediaInsertAllowed(MediaRow(r))
    /\ media_uploads' = media_uploads \cup {MediaRow(r)}
    /\ AfterInsert(r, TRUE)
    /\ UNCHANGED <<users, properties, token_transactions, disk, req, tx, resp, failures>>

\* INSERT INTO media_uploads violates a constraint; the error is dropped.
InsertMediaRejected(r) ==
    /\ pc[r] = "insert"
    /\ ~MediaInsertAllowed(MediaRow(r))
    /\ AfterInsert(r, FALSE)
    /\ UNCHANGED <<db, disk, req, tx, resp, failures>>

\* ----------------------------------------------------------- award_tokens

Amount(r) == loc[r].tokens

\* pool.begin()
AwardBegin(r) ==
    /\ pc[r] = "award_begin"
    /\ tx' = [tx EXCEPT ![r] = [NoTx EXCEPT !.open = TRUE]]
    /\ pc' = [pc EXCEPT ![r] = "award_update"]
    /\ UNCHANGED <<db, disk, req, loc, resp, trail, failures>>

\* The UPDATE run on the pool instead of the transaction: it commits at once.
AwardUpdateOnPool(r) ==
    /\ pc[r] = "award_update"
    /\ \A o \in Requests \ {r} : tx[o].user # req[r].user_id
    /\ users' = IF req[r].user_id \in DOMAIN users
                THEN [users EXCEPT ![req[r].user_id] = @ + Amount(r)]
                ELSE users
    /\ pc' = [pc EXCEPT ![r] = "award_insert"]
    /\ UNCHANGED <<properties, media_uploads, token_transactions, disk, req, loc,
                   tx, resp, trail, failures>>

\* UPDATE users SET token_balance = token_balance + $1 WHERE id = $2, inside
\* the transaction: it waits for the row lock, reads the committed balance
\* and keeps the new row version private until COMMIT.
AwardUpdate(r) ==
    /\ pc[r] = "award_update"
    /\ \A o \in Requests \ {r} : tx[o].user # req[r].user_id
    /\ tx' = [tx EXCEPT ![r] =
                IF req[r].user_id \in DOMAIN users
                THEN [@ EXCEPT !.user = req[r].user_id,
                               !.balance = users[req[r].user_id] + Amount(r)]
                ELSE @]
    /\ pc' = [pc EXCEPT ![r] = "award_insert"]
    /\ UNCHANGED <<db, disk, req, loc, resp, trail, failures>>

TransactionRow(r) ==
    [id |-> <<"transaction", r, loc[r].idx>>,
     user_id |-> req[r].user_id,
     media_id |-> CurMediaId(r),
     amount |-> Amount(r),
     transaction_type |-> "upload_reward"]

\* The INSERT run on the pool instead of the transaction: it commits at once.
AwardInsertOnPool(r) ==
    /\ pc[r] = "award_insert"
    /\ TransactionInsertAllowed(TransactionRow(r))
    /\ token_transactions' = token_transactions \cup {TransactionRow(r)}
    /\ pc' = [pc EXCEPT ![r] = "award_commit"]
    /\ UNCHANGED <<users, properties, media_uploads, disk, req, loc, tx, resp,
                   trail, failures>>

\* INSERT INTO token_transactions inside the transaction.
AwardInsert(r) ==
    /\ pc[r] = "award_insert"
    /\ TransactionInsertAllowed(TransactionRow(r))
    /\ tx' = [tx EXCEPT ![r].rows = @ \cup {TransactionRow(r)}]
    /\ pc' = [pc EXCEPT ![r] = "award_commit"]
    /\ UNCHANGED <<db, disk, req, loc, resp, trail, failures>>

\* An Err leaves award_tokens through `?`: tx is dropped, which rolls the
\* transaction back and releases its row lock.
Rollback(r) ==
    /\ tx' = [tx EXCEPT ![r] = NoTx]
    /\ UNCHANGED db

\* The INSERT violates a foreign key: Err, rollback; the caller drops the Err.
AwardInsertRejected(r) ==
    /\ pc[r] = "award_insert"
    /\ ~TransactionInsertAllowed(TransactionRow(r))
    /\ Rollback(r)
    /\ EndFile(r, "err")
    /\ UNCHANGED <<disk, req, resp, failures>>

\* tx.commit(): the new balance and the transaction row become visible
\* together.
AwardCommit(r) ==
    /\ pc[r] = "award_commit"
    /\ users' = IF tx[r].user = None THEN users
                ELSE [users EXCEPT ![tx[r].user] = tx[r].balance]
    /\ token_transactions' = token_transactions \cup tx[r].rows
    /\ tx' = [tx EXCEPT ![r] = NoTx]
    /\ EndFile(r, "ok")
    /\ UNCHANGED <<properties, media_uploads, disk, req, resp, failures>>

\* After the loop: 200 with media_ids and tokens_earned = total_tokens.
Respond(r) ==
    /\ pc[r] = "loop"
    /\ loc[r].idx > Len(req[r].files)
    /\ resp' = [resp EXCEPT ![r] = [status |-> 200,
                                     media_ids |-> loc[r].media_ids,
                                     tokens_earned |-> loc[r].total_tokens]]
    /\ pc' = [pc EXCEPT ![r] = "done"]
    /\ UNCHANGED <<db, disk, req, loc, tx, trail, failures>>

\* ------------------------------------------- failures of the environment
\* A statement can also fail for a reason outside the data (connection
\* lost, pool timeout, disk full).  The code decides what follows.

\* check_duplicate returns Err: unwrap_or(false) makes it "not a duplicate".
CheckDuplicateError(r) ==
    /\ failures < MaxFailures
    /\ failures' = failures + 1
    /\ StartFile(r, Err)

\* INSERT INTO properties returns Err: 500.
InsertPropertyError(r) ==
    /\ failures < MaxFailures
    /\ failures' = failures + 1
    /\ pc[r] = "parsed"
    /\ req[r].user_id # None
    /\ pc' = [pc EXCEPT ![r] = "server_error"]
    /\ resp' = [resp EXCEPT ![r] = [status |-> 500, media_ids |-> <<>>, tokens_earned |-> 0]]
    /\ UNCHANGED <<db, disk, req, loc, tx, trail>>

\* File::create returns Err: unwrap() panics and the handler's task ends
\* without a response.
WriteFileCreateError(r) ==
    /\ failures < MaxFailures
    /\ failures' = failures + 1
    /\ pc[r] = "store"
    /\ pc' = [pc EXCEPT ![r] = "panicked"]
    /\ UNCHANGED <<db, disk, req, loc, tx, resp, trail>>

\* write_all returns Err after a proper prefix of the bytes reached the
\* file; .ok() drops the Err and the loop body goes on.
WriteFileShort(r) ==
    /\ failures < MaxFailures
    /\ failures' = failures + 1
    /\ pc[r] = "store"
    /\ \E n \in 0..(Len(CurData(r)) - 1) :
          disk' = [p \in DOMAIN disk \cup {FilePath(CurName(r))} |->
                    IF p = FilePath(CurName(r)) THEN SubSeq(CurData(r), 1, n) ELSE disk[p]]
    /\ pc' = [pc EXCEPT ![r] = "insert"]
    /\ UNCHANGED <<db, req, loc, tx, resp, trail>>

\* INSERT INTO media_uploads returns Err with no row stored; .ok() drops it.
InsertMediaError(r) ==
    /\ failures < MaxFailures
    /\ failures' = failures + 1
    /\ pc[r] = "insert"
    /\ AfterInsert(r, FALSE)
    /\ UNCHANGED <<db, disk, req, tx, resp>>

\* begin, UPDATE, INSERT or COMMIT of award_tokens returns Err: rollback.
AwardError(r) ==
    /\ failures < MaxFailures
    /\ failures' = failures + 1
    /\ pc[r] \in {"award_begin", "award_update", "award_insert", "award_commit"}
    /\ Rollback(r)
    /\ EndFile(r, "err")
    /\ UNCHANGED <<disk, req, resp>>

\* --------------------------------------------------------- specifications

upload_property(r) ==
    \/ ParseMultipart(r)
    \/ RejectMissingUser(r)
    \/ InsertProperty(r)
    \/ InsertPropertyRejected(r)
    \/ CheckDuplicate(r)
    \/ WriteFile(r)
    \/ InsertMedia(r)
    \/ InsertMediaRejected(r)
    \/ AwardBegin(r)
    \/ AwardUpdate(r)
    \/ AwardInsert(r)
    \/ AwardInsertRejected(r)
    \/ AwardCommit(r)
    \/ Respond(r)

Failure(r) ==
    \/ CheckDuplicateError(r)
    \/ InsertPropertyError(r)
    \/ WriteFileCreateError(r)
    \/ WriteFileShort(r)
    \/ InsertMediaError(r)
    \/ AwardError(r)

\* The service on a database and a disk that answer every statement.
Next ==
    \/ \E u \in UserIds : create_user(u)
    \/ \E r \in Requests : upload_property(r)

Spec == Init /\ [][Next]_vars

\* The service on a database and a disk whose statements can fail.
NextFaulty ==
    \/ Next
    \/ \E r \in Requests : Failure(r)

SpecFaulty == Init /\ [][NextFaulty]_vars

\* ------------------------------------------------------------- vocabulary

\* The files of request r whose loop body has run to its end.
FilesDone(r) == 1..(loc[r].idx - 1)

\* The same, over all requests, as (request, index) pairs.
AllFilesDone == {f \in Requests \X (1..MaxFiles) : f[2] \in FilesDone(f[1])}

\* token_transactions rows of a user, of a media id, of a content hash.
LedgerOf(u) == {t \in token_transactions : t.user_id = u}
RewardsOfMedia(id) == {t \in token_transactions : t.media_id = id}
RewardsOfHash(h) ==
    {t \in token_transactions :
        \E f \in AllFilesDone : /\ t.media_id = MediaId(f[1], f[2])
                                 /\ trail[f[1]][f[2]].content_hash = h}

\* Files, of different requests, that carried the same bytes and that
\* check_duplicate both let through as "not a duplicate".
RacedOn(h) ==
    {f \in AllFilesDone : /\ trail[f[1]][f[2]].content_hash = h
                          /\ trail[f[1]][f[2]].is_original
                          /\ ~trail[f[1]][f[2]].stored_before}

Hashes == {calculate_file_hash(d) : d \in FileData}

\* ------------------------------------------------------------------ claims

\* C1: in every reachable state at most one media_uploads row per content
\* hash has is_original = true.
C1_OneOriginalPerHash ==
    \A m1 \in media_uploads : \A m2 \in media_uploads :
        (m1.content_hash = m2.content_hash /\ m1.is_original /\ m2.is_original)
            => m1 = m2

\* Two uploads of the same bytes were both let through as original, the
\* second one's insert was refused, and the first one's row is the original.
C1_Witness ==
    \E h \in Hashes : \E f \in RacedOn(h) : \E g \in RacedOn(h) :
        /\ f # g
        /\ trail[f[1]][f[2]].inserted
        /\ ~trail[g[1]][g[2]].inserted
        /\ failures = 0
        /\ \E m \in media_uploads : m.content_hash = h /\ m.is_original

\* C2: in every committed database state each user's token_balance is the
\* sum of the amounts of that user's token_transactions rows, also after
\* award_tokens calls that failed.
C2_BalanceIsLedgerSum ==
    \A u \in DOMAIN users : users[u] = SumAmounts(LedgerOf(u))

\* One award_tokens call of a user failed and another one committed.
C2_Witness ==
    \E r \in Requests : \E i \in FilesDone(r) :
        /\ trail[r][i].awarded = "err"
        /\ req[r].user_id \in DOMAIN users
        /\ users[req[r].user_id] = ORIGINAL_UPLOAD_TOKENS
        /\ LedgerOf(req[r].user_id) # {}

\* C3: when two concurrent requests carry the same bytes and both pass
\* check_duplicate before either inserts, then once both files are processed
\* exactly one token_transactions row exists for that fingerprint and the
\* balances have grown by 100 for it, not 200.
C3_OneRewardPerRace ==
    \A h \in Hashes :
        Cardinality(RacedOn(h)) >= 2 =>
            /\ Cardinality(RewardsOfHash(h)) = 1
            /\ SumAmounts(RewardsOfHash(h)) = ORIGINAL_UPLOAD_TOKENS
            /\ SumAmounts({[id |-> u, amount |-> users[u]] : u \in DOMAIN users})
                 = ORIGINAL_UPLOAD_TOKENS
                   + SumAmounts(token_transactions \ RewardsOfHash(h))

\* Both requests of the race have answered and one reward is on the ledger.
C3_Witness ==
    \E h \in Hashes :
        /\ Cardinality(RacedOn(h)) >= 2
        /\ \A r \in Requests : pc[r] = "done"
        /\ \E r1 \in Requests : \E r2 \in Requests :
              req[r1].user_id # req[r2].user_id
        /\ Cardinality(token_transactions) = 1

\* C4: the upload that loses the race (its insert hits the uniqueness
\* violation after check_duplicate let it through) ends with its own
\* media_uploads row, is_original = false and tokens_earned = 0, and its
\* request still succeeds.
C4_LoserDowngraded ==
    \A h \in Hashes : \A f \in RacedOn(h) :
        (~trail[f[1]][f[2]].inserted /\ pc[f[1]] = "done") =>
            /\ resp[f[1]].status = 200
            /\ \E m \in media_uploads : /\ m.id = MediaId(f[1], f[2])
                                          /\ ~m.is_original
                                          /\ m.tokens_earned = 0

\* C5: every processed file has its media_uploads row; a file whose bytes a
\* committed row already stored gets a second row with the same hash,
\* is_original = false and tokens_earned = 0, next to the first row, which
\* keeps is_original = true and tokens_earned = 100.
C5_EveryFileHasItsRow ==
    \A f \in AllFilesDone :
        /\ Cardinality({m \in media_uploads : m.id = MediaId(f[1], f[2])}) = 1
        /\ trail[f[1]][f[2]].stored_before =>
              \E m \in media_uploads : \E first \in media_uploads :
                  /\ m.id = MediaId(f[1], f[2])
                  /\ m.content_hash = trail[f[1]][f[2]].content_hash
                  /\ ~m.is_original /\ m.tokens_earned = 0
                  /\ first.content_hash = m.content_hash
                  /\ first.is_original
                  /\ first.tokens_earned = ORIGINAL_UPLOAD_TOKENS

\* The (request, index) of the upload that produced media id.
OwnerDone(id) == \E f \in AllFilesDone : MediaId(f[1], f[2]) = id

FileSteps == {"store", "insert", "award_begin", "award_update", "award_insert",
              "award_commit"}

C6_State ==
    \A r \in Requests : \A i \in 1..Len(trail[r]) :
        trail[r][i].stored_before =>
            /\ RewardsOfMedia(MediaId(r, i)) = {}
            /\ pc[r] = "done" =>
                  resp[r].tokens_earned = ORIGINAL_UPLOAD_TOKENS *
                      Cardinality({j \in 1..Len(trail[r]) : ~trail[r][j].stored_before})
            /\ \E m \in media_uploads :
                  /\ m.content_hash = trail[r][i].content_hash
                  /\ m.is_original
                  /\ m.tokens_earned = ORIGINAL_UPLOAD_TOKENS
                  /\ OwnerDone(m.id) =>
                        /\ \E t \in RewardsOfMedia(m.id) :
                              t.amount = ORIGINAL_UPLOAD_TOKENS /\ t.user_id = m.user_id
                        /\ users[m.user_id] >= ORIGINAL_UPLOAD_TOKENS

C6_Step ==
    \A r \in Requests :
        (/\ pc[r] \in FileSteps
         /\ trail[r][loc[r].idx].stored_before
         /\ pc'[r] # pc[r]) => UNCHANGED <<users, token_transactions>>

\* C6: an upload of bytes that an earlier upload already stored is not
\* rewarded: the response counts 0 tokens for that file, no step of its
\* processing changes a balance or adds a token_transactions row, and the
\* first uploader's row, reward and 100 tokens stay.
C6_DuplicateNotRewarded == []C6_State /\ [][C6_Step]_vars

\* Bob uploads what alice uploaded before: bob has 0, alice has 100.
C6_Witness ==
    \E r \in Requests :
        /\ pc[r] = "done"
        /\ Len(trail[r]) = 1
        /\ trail[r][1].stored_before
        /\ resp[r].tokens_earned = 0
        /\ users[req[r].user_id] = 0
        /\ \E o \in Requests \ {r} :
              /\ pc[o] = "done"
              /\ req[o].user_id # req[r].user_id
              /\ users[req[o].user_id] = ORIGINAL_UPLOAD_TOKENS

C7_LedgerStep ==
    \/ /\ token_transactions' = token_transactions
       /\ \A u \in DOMAIN users : users'[u] = users[u]
    \/ \E t \in token_transactions' \ token_transactions :
          /\ token_transactions' = token_transactions \cup {t}
          /\ t.user_id \in DOMAIN users
          /\ users' = [users EXCEPT ![t.user_id] = @ + t.amount]

C7_FailedStep ==
    \A r \in Requests :
        (/\ pc[r] \in FileSteps
         /\ pc'[r] = "loop"
         /\ trail'[r][loc[r].idx].awarded = "err")
            => UNCHANGED <<users, token_transactions>>

C7_FailedState ==
    \A f \in AllFilesDone :
        trail[f[1]][f[2]].awarded = "err" => RewardsOfMedia(MediaId(f[1], f[2])) = {}

\* C7: award_tokens is all-or-nothing: every step either leaves balances
\* and token_transactions as they were or adds one row together with its
\* amount on that user's balance; a call that fails (UPDATE, INSERT or
\* COMMIT) changes neither and leaves no row for its media id.
C7_AwardAllOrNothing ==
    [][C7_LedgerStep /\ C7_FailedStep]_vars /\ []C7_FailedState

\* A COMMIT failed after UPDATE and INSERT had run in the transaction.
C7_Witness ==
    \E f \in AllFilesDone :
        /\ trail[f[1]][f[2]].awarded = "err"
        /\ trail[f[1]][f[2]].commit_failed
        /\ trail[f[1]][f[2]].inserted
        /\ users[req[f[1]].user_id] = 0
        /\ token_transactions = {}

\* C8: every id in the media_ids of a response is the id of a persisted
\* media_uploads row.
C8_MediaIdsPersisted ==
    \A r \in Requests :
        pc[r] = "done" =>
            \A k \in 1..Len(resp[r].media_ids) :
                \E m \in media_uploads : m.id = resp[r].media_ids[k]

\* C9: tokens_earned of a response is the total actually credited by the
\* request: the sum of the token_transactions amounts for its media.
C9_ResponseTokensCredited ==
    \A r \in Requests :
        pc[r] = "done" =>
            resp[r].tokens_earned =
                SumAmounts({t \in token_transactions :
                              \E i \in 1..Len(req[r].files) : t.media_id = MediaId(r, i)})

C10_Step ==
    \A r \in Requests :
        (req[r].user_id = None /\ pc[r] = "parsed" /\ pc'[r] # pc[r]) =>
            /\ pc'[r] = "bad_request"
            /\ resp'[r].status = 400
            /\ UNCHANGED <<db, disk>>

C10_State ==
    \A r \in Requests :
        (pc[r] # "idle" /\ req[r].user_id = None) =>
            /\ pc[r] \in {"parsed", "bad_request"}
            /\ \A p \in properties : p.id # PropertyId(r)
            /\ \A m \in media_uploads : m.property_id # PropertyId(r)
            /\ \A i \in 1..Len(req[r].files) : RewardsOfMedia(MediaId(r, i)) = {}

\* C10: a request without a parseable user_id is answered 400 and no step of
\* it changes a table or the disk, attachments or not.
C10_MissingUserRejected == [][C10_Step]_vars /\ []C10_State

\* A request with an attachment and no user_id was answered 400.
C10_Witness ==
    \E r \in Requests :
        /\ pc[r] = "bad_request"
        /\ req[r].files # <<>>
        /\ resp[r].status = 400

\* C11: a file whose bytes were not completely written to the disk gets no
\* media_uploads row, so no row references a path with unwritten bytes.
C11_NoRowForUnwrittenBytes ==
    \A r \in Requests : \A i \in 1..Len(trail[r]) :
        (\E m \in media_uploads : m.id = MediaId(r, i)) => trail[r][i].written

\* C12: a failed check_duplicate query fails the processing of the file: the
\* file is not marked original, gets no row as an original and no reward.
C12_FailedLookupFailsFile ==
    \A r \in Requests : \A i \in 1..Len(trail[r]) :
        ~trail[r][i].lookup_ok =>
            /\ ~trail[r][i].is_original
            /\ \A m \in media_uploads : m.id # MediaId(r, i)
            /\ RewardsOfMedia(MediaId(r, i)) = {}

\* The files whose storage write has run, as (request, index) pairs.
FilesWritten ==
    {f \in Requests \X (1..MaxFiles) :
        /\ f[2] <= Len(trail[f[1]])
        /\ f[2] < loc[f[1]].idx \/ pc[f[1]] \notin {"loop", "store", "panicked"}}

PathOf(f) == FilePath(req[f[1]].files[f[2]][1])

\* C13: every file is written to a path generated fresh for the upload: no
\* two uploads write the same path, and the bytes at the file_path of a
\* media_uploads row hash to the row's content_hash.
C13_FreshPathPerUpload ==
    /\ \A f \in FilesWritten : \A g \in FilesWritten : f # g => PathOf(f) # PathOf(g)
    /\ \A m \in media_uploads :
          /\ m.file_path \in DOMAIN disk
          /\ calculate_file_hash(disk[m.file_path]) = m.content_hash

\* C14: a failure while processing one file does not abort the request and
\* undoes nothing: the request is never left without its answer, its
\* property row stays, and the rows and rewards of its files stay.
C14_FileFailureIsolated ==
    \A r \in Requests :
        /\ pc[r] # "panicked"
        /\ trail[r] # <<>> => \E p \in properties : p.id = PropertyId(r)
        /\ \A i \in FilesDone(r) :
              /\ trail[r][i].inserted =>
                    \E m \in media_uploads : m.id = MediaId(r, i)
              /\ trail[r][i].awarded = "ok" => RewardsOfMedia(MediaId(r, i)) # {}

\* C15: award_tokens is invoked for a file if and only if the file's row was
\* persisted with is_original = true.
C15_AwardOnlyForPersistedOriginal ==
    \A f \in AllFilesDone :
        trail[f[1]][f[2]].awarded # "no" <=>
            \E m \in media_uploads : m.id = MediaId(f[1], f[2]) /\ m.is_original

\* The order of upload_property's steps, as pairs of positions.
StepOrder ==
    {<<"idle", "parsed">>,
     <<"parsed", "bad_request">>, <<"parsed", "server_error">>, <<"parsed", "loop">>,
     <<"loop", "store">>, <<"loop", "done">>,
     <<"store", "insert">>, <<"store", "panicked">>,
     <<"insert", "award_begin">>, <<"insert", "loop">>,
     <<"award_begin", "award_update">>, <<"award_begin", "loop">>,
     <<"award_update", "award_insert">>, <<"award_update", "loop">>,
     <<"award_insert", "award_commit">>, <<"award_insert", "loop">>,
     <<"award_commit", "loop">>}

C16_State ==
    \A r \in Requests :
        /\ (pc[r] \in FileSteps \cup {"loop", "done", "panicked"}) =>
              \E p \in properties : p.id = PropertyId(r)
        /\ trail[r] # <<>> => \E p \in properties : p.id = PropertyId(r)
        /\ pc[r] = "server_error" =>
              /\ trail[r] = <<>>
              /\ loc[r] = NoLoc
              /\ \A m \in media_uploads : m.property_id # PropertyId(r)
              /\ \A i \in 1..MaxFiles : RewardsOfMedia(MediaId(r, i)) = {}
    /\ \A m \in media_uploads : \E p \in properties : p.id = m.property_id

C16_Step ==
    \A r \in Requests :
        pc'[r] # pc[r] =>
            /\ <<pc[r], pc'[r]>> \in StepOrder
            /\ properties' # properties => pc[r] = "parsed"
            /\ trail'[r] # trail[r] /\ pc[r] = "loop" =>
                  /\ pc'[r] = "store"
                  /\ Len(trail'[r]) = Len(trail[r]) + 1
                  /\ trail'[r][Len(trail'[r])].content_hash =
                        calculate_file_hash(req[r].files[Len(trail'[r])][2])
                  /\ loc'[r].content_hash = calculate_file_hash(CurData(r))
            /\ disk' # disk => pc[r] = "store"
            /\ media_uploads' # media_uploads => pc[r] = "insert"
            /\ (token_transactions' # token_transactions \/ users' # users) =>
                  pc[r] = "award_commit"
            /\ pc'[r] = "server_error" =>
                  UNCHANGED <<db, disk, loc, tx, trail>>
            /\ pc[r] = "server_error" => FALSE

\* C16: the properties row is committed before any file of the request is
\* stored or gets a media_uploads row; each file runs hash, duplicate check,
\* storage write, row insert, reward in that order; a failed properties insert
\* ends the request with no file written, no row inserted, no tokens awarded.
C16_PropertyFirstThenOrderedFiles == []C16_State /\ [][C16_Step]_vars

\* A request refused for its properties insert after receiving a file, next
\* to a request that went through every step of a file.
C16_Witness ==
    \E r \in Requests, q \in Requests :
        /\ pc[r] = "server_error"
        /\ Len(req[r].files) > 0
        /\ failures = 0
        /\ pc[q] = "done"
        /\ \E i \in FilesDone(q) : trail[q][i].awarded = "ok"

C17_State ==
    \A r \in Requests :
        (pc[r] = "done" /\ req[r].files = <<>>) =>
            /\ resp[r] = [status |-> 200, media_ids |-> <<>>, tokens_earned |-> 0]
            /\ Cardinality({p \in properties : p.id = PropertyId(r)}) = 1
            /\ \A m \in media_uploads : m.property_id # PropertyId(r)
            /\ trail[r] = <<>>

C17_Step ==
    \A r \in Requests :
        (/\ pc'[r] # pc[r]
         /\ pc[r] # "idle"
         /\ req[r].files = <<>>
         /\ req[r].user_id \in DOMAIN users) =>
            /\ UNCHANGED <<users, media_uploads, token_transactions, disk>>
            /\ pc[r] = "parsed" =>
                  /\ pc'[r] = "loop"
                  /\ properties' = properties \cup {PropertyRow(r)}
                  /\ Cardinality(properties') = Cardinality(properties) + 1
            /\ pc[r] = "loop" =>
                  /\ pc'[r] = "done"
                  /\ properties' = properties

\* C17: a request with an existing user and no file creates exactly one
\* properties row, answers media_ids = [] and tokens_earned = 0, and leaves
\* media_uploads, token_transactions and every balance unchanged.
C17_ZeroFiles == []C17_State /\ [][C17_Step]_vars

\* A finished request without files, after another request earned tokens.
C17_Witness ==
    \E r \in Requests :
        /\ pc[r] = "done"
        /\ req[r].files = <<>>
        /\ req[r].user_id \in DOMAIN users
        /\ users[req[r].user_id] > 0

C18_State ==
    /\ \A m \in media_uploads : \A n \in media_uploads :
          m.content_hash = n.content_hash => m = n
    /\ \A r \in Requests :
          pc[r] = "done" =>
              /\ resp[r].status = 200
              /\ resp[r].media_ids = [i \in 1..Len(req[r].files) |-> MediaId(r, i)]

C18_Step ==
    \A r \in Requests :
        (/\ pc[r] = "insert"
         /\ pc'[r] # pc[r]
         /\ \E m \in media_uploads : m.content_hash = loc[r].content_hash) =>
            /\ media_uploads' = media_uploads
            /\ ~trail'[r][loc[r].idx].inserted
            /\ pc'[r] = IF loc[r].is_original THEN "award_begin" ELSE "loop"

\* C18: no two media_uploads rows share a content_hash, original or not; an
\* insert of a row whose hash is already stored adds nothing, and
\* upload_property goes on as if it had succeeded: the request still answers
\* 200 and lists the media id.
C18_HashUniqueOverAllRows == []C18_State /\ [][C18_Step]_vars

\* A file known to be a duplicate was sent to the INSERT as a non-original
\* row and has no row; its request answered 200.
C18_Witness ==
    \E f \in AllFilesDone :
        /\ trail[f[1]][f[2]].stored_before
        /\ ~trail[f[1]][f[2]].is_original
        /\ ~trail[f[1]][f[2]].inserted
        /\ failures = 0
        /\ pc[f[1]] = "done"
        /\ \A m \in media_uploads : m.id # MediaId(f[1], f[2])

\* C19: each token_transactions row has amount 100 and references an existing
\* media_uploads row that is original and belongs to the transaction's user;
\* no media id is referenced by two token_transactions rows.
C19_TransactionsMatchOriginalRows ==
    /\ \A t \in token_transactions :
          /\ t.amount = ORIGINAL_UPLOAD_TOKENS
          /\ \E m \in media_uploads :
                /\ m.id = t.media_id
                /\ m.is_original
                /\ m.user_id = t.user_id
    /\ \A t \in token_transactions : \A u \in token_transactions :
          t.media_id = u.media_id => t = u

\* A reward is committed for the upload that won a race, and the award for
\* the upload that lost it was attempted and failed.
C19_Witness ==
    /\ token_transactions # {}
    /\ \E f \in AllFilesDone :
          /\ trail[f[1]][f[2]].awarded = "err"
          /\ ~trail[f[1]][f[2]].inserted
          /\ failures = 0

\* C20: once a file's processing has finished, its media_uploads row with
\* tokens_earned > 0 has exactly one token_transactions row of that amount
\* for its owner.
C20_RecordedTokensWereCredited ==
    \A f \in AllFilesDone : \A m \in media_uploads :
        (m.id = MediaId(f[1], f[2]) /\ m.tokens_earned > 0) =>
            Cardinality({t \in token_transactions :
                            /\ t.media_id = m.id
                            /\ t.amount = m.tokens_earned
                            /\ t.user_id = m.user_id}) = 1

====
